---- MODULE Spec2Model ----
(***************************************************************************)
(* Interaction engine of the notch overlay (src-tauri/src/window.rs):      *)
(* the window-settings store, the UI-bounds store, the fixed window        *)
(* geometry and the hover detector loop.                                   *)
(*                                                                         *)
(* Lengths are whole logical pixels.  The source computes in f64; every    *)
(* display size and setting drawn below is chosen so that the halvings and *)
(* the tenths of the source are exact, hence Half and Tenth lose nothing.  *)
(***************************************************************************)
EXTENDS Integers, Sequences, FiniteSets, TLC

\* ------------------------------------------------------------------ bounds

\* Ticks of the detector loop followed in one behaviour.
MaxTicks == 4

\* ------------------------------------------------- constants of the source

PADDING_ENTER == 20
PADDING_EXIT == 30
WIN_PADDING_ENTER == 20
WIN_PADDING_EXIT == 30
BASE_EXTRA == 160
WIN_FALLBACK_WIDTH == 800
WIN_FALLBACK_HEIGHT == 100
REFRESH_EVERY == 500
U16 == 65536
NO_INSET_NOTCH_WIDTH == 180
NOTCH_HEIGHT_MIN == 38
NOTCH_HEIGHT_MAX == 52
NOTCH_WIDTH_MIN == 200
NOTCH_WIDTH_MAX == 260
LINUX_DEFAULT_WIDTH == 1920
LINUX_DEFAULT_HEIGHT == 1080

\* ------------------------------------------------------- arithmetic helpers

Half(v) == v \div 2
Tenth(v) == v \div 10
Max(a, b) == IF a >= b THEN a ELSE b
Min(a, b) == IF a <= b THEN a ELSE b

\* ---------------------------------------------------- values of the inputs

None == [none |-> TRUE]

\* The settings table without a row under 'window_settings'.
NoRow == << >>

\* Displays the OS may report, per build target.
MacDisplay == [present |-> TRUE, width |-> 1760, height |-> 1100, inset_top |-> 32]
WinDisplay == [present |-> TRUE, width |-> 2200, height |-> 1200, inset_top |-> 0]
LinuxDisplay == [present |-> TRUE, width |-> 1920, height |-> 1080, inset_top |-> 0]

DisplaysOf(p) ==
    CASE p = "macos" -> {MacDisplay}
      [] p = "windows" -> {WinDisplay}
      [] OTHER -> {LinuxDisplay}

\* Further displays for the geometry query: a wider notched screen, screens
\* without a top inset, and no main screen / no primary monitor at all.
MacWideDisplay == [present |-> TRUE, width |-> 2200, height |-> 1400, inset_top |-> 38]
MacPlainDisplay == [present |-> TRUE, width |-> 1440, height |-> 900, inset_top |-> 0]
MacSmallDisplay == [present |-> TRUE, width |-> 640, height |-> 480, inset_top |-> 0]
NoDisplay == [present |-> FALSE, width |-> 0, height |-> 0, inset_top |-> 0]

GeometryDisplaysOf(p) ==
    CASE p = "macos" -> {MacDisplay, MacWideDisplay, MacPlainDisplay, MacSmallDisplay, NoDisplay}
      [] p = "windows" -> {WinDisplay}
      [] OTHER -> {LinuxDisplay, NoDisplay}

Platforms == {"macos", "windows", "linux"}

Bounds1 == [x |-> 0, y |-> 0, width |-> 100, height |-> 40]
Bounds2 == [x |-> 330, y |-> 0, width |-> 100, height |-> 60]
BoundsValues == {Bounds1, Bounds2}

\* Cursor positions, as distance from the left and from the TOP of the screen.
CursorPoints ==
    { [x |-> 550, y |-> 10],    \* inside Bounds1 at window_x = 500
      [x |-> 495, y |-> 10],    \* 5 px left of Bounds1
      [x |-> 475, y |-> 10],    \* 25 px left: between enter and exit padding
      [x |-> 491, y |-> 10],    \* 9 px left
      [x |-> 469, y |-> 10],    \* 31 px left: beyond the exit padding
      [x |-> 880, y |-> 10],    \* top centre of the macOS display
      [x |-> 50,  y |-> 600] }  \* far away

\* --------------------------------------------------------------- the state

VARIABLES
    platform,         \* build target (cfg(target_os))
    display,          \* what the OS reports about the primary display
    settings,         \* WINDOW_SETTINGS: the value inside the RwLock
    poisoned,         \* WINDOW_SETTINGS lock poisoned by a panicking writer
    db,               \* settings table, row 'window_settings' (NoRow: no row)
    ui_bounds,        \* UI_BOUNDS: Option<UiBounds> inside the RwLock
    ui_writer,        \* update_ui_bounds call holding the write lock (None: free)
    window,           \* the window labelled "main"
    is_inside,        \* IS_INSIDE
    det,              \* values the detector thread captured at start-up
    cached_screen_height,
    refresh_counter,
    since_refresh,    \* ticks taken since the screen height was last queried
    tick_budget,      \* ticks left to follow (MaxTicks at the start)
    emitted,          \* notifications emitted so far, in order
    upd,              \* the update_window_settings call in flight, or the last one
    last              \* the operation that completed last, with what it saw and did

vars == << platform, display, settings, poisoned, db, ui_bounds, ui_writer, window,
           is_inside, det, cached_screen_height, refresh_counter, since_refresh, tick_budget,
           emitted, upd, last >>

\* ------------------------------------------------------ screen geometry

\* get_screen_info: (screen_width, screen_height, notch_height, notch_width).
\* has_handle: whether the caller passed Some(app_handle) (only Linux reads it).
MacNotchHeight(d) ==
    IF d.inset_top >= 0
    THEN Min(Max(Tenth(d.height), NOTCH_HEIGHT_MIN), NOTCH_HEIGHT_MAX)
    ELSE 0

\* Mutant: a screen without a top inset gets the clamped width too.
MacNotchWidthClamped(d) ==
    Min(Max(Tenth(d.width), NOTCH_WIDTH_MIN), NOTCH_WIDTH_MAX)

MacNotchWidth(d) ==
    IF d.inset_top > 0
    THEN Min(Max(Tenth(d.width), NOTCH_WIDTH_MIN), NOTCH_WIDTH_MAX)
    ELSE NO_INSET_NOTCH_WIDTH

get_screen_info(p, d, has_handle) ==
    CASE p = "macos" ->
           IF ~d.present
           THEN [screen_width |-> 0, screen_height |-> 0,
                 notch_height |-> 0, notch_width |-> 0]
           ELSE [screen_width |-> d.width, screen_height |-> d.height,
                 notch_height |-> MacNotchHeight(d), notch_width |-> MacNotchWidth(d)]
      [] p = "windows" ->
           [screen_width |-> d.width, screen_height |-> d.height,
            notch_height |-> 0, notch_width |-> 0]
      [] OTHER ->
           IF has_handle /\ d.present
           THEN [screen_width |-> d.width, screen_height |-> d.height,
                 notch_height |-> 0, notch_width |-> 0]
           ELSE [screen_width |-> LINUX_DEFAULT_WIDTH, screen_height |-> LINUX_DEFAULT_HEIGHT,
                 notch_height |-> 0, notch_width |-> 0]

\* Mutant: the query fails (returns nothing) when no display can be reached.
GetNotchInfoOrNone(p, d) ==
    LET info == get_screen_info(p, d, TRUE)
    IN IF ~d.present THEN None
       ELSE [has_notch |-> info.notch_height > 0,
             notch_height |-> info.notch_height,
             notch_width |-> info.notch_width,
             screen_width |-> info.screen_width,
             screen_height |-> info.screen_height,
             visible_height |-> info.screen_height - info.notch_height]

\* get_notch_info: the NotchInfo built from get_screen_info(Some(app_handle)).
get_notch_info(p, d) ==
    LET info == get_screen_info(p, d, TRUE)
    IN [has_notch |-> info.notch_height > 0,
        notch_height |-> info.notch_height,
        notch_width |-> info.notch_width,
        screen_width |-> info.screen_width,
        screen_height |-> info.screen_height,
        visible_height |-> info.screen_height - info.notch_height]

\* ------------------------------------------------------ window settings

WindowSettings(w, h, m) == [extra_width |-> w, extra_height |-> h, non_notch_mode |-> m]

WindowSettingsDefault == WindowSettings(400, 800, FALSE)

\* Mutant: non_notch_mode is not serialised.
ToJsonWithoutMode(s) ==
    << <<"extra_width", s.extra_width>>,
       <<"extra_height", s.extra_height>> >>

\* serde_json::to_string(settings): the object's members in declaration order.
to_json(s) ==
    << <<"extra_width", s.extra_width>>,
       <<"extra_height", s.extra_height>>,
       <<"non_notch_mode", s.non_notch_mode>> >>

JsonHas(j, key) == \E i \in 1..Len(j) : j[i][1] = key
JsonGet(j, key) == j[CHOOSE i \in 1..Len(j) : j[i][1] = key][2]

\* Mutant: non_notch_mode is required too.
FromJsonStrict(j) ==
    IF JsonHas(j, "extra_width") /\ JsonHas(j, "extra_height") /\ JsonHas(j, "non_notch_mode")
    THEN WindowSettings(JsonGet(j, "extra_width"), JsonGet(j, "extra_height"),
                        JsonGet(j, "non_notch_mode"))
    ELSE None

\* serde_json::from_str::<WindowSettings>: both floats are required,
\* non_notch_mode is #[serde(default)].  None: the text does not parse.
from_json(j) ==
    IF JsonHas(j, "extra_width") /\ JsonHas(j, "extra_height")
    THEN WindowSettings(JsonGet(j, "extra_width"), JsonGet(j, "extra_height"),
                        IF JsonHas(j, "non_notch_mode")
                        THEN JsonGet(j, "non_notch_mode") ELSE FALSE)
    ELSE None

\* What the database can do to persist_window_settings: write the row, fail
\* (no connection, or the INSERT fails), or get_connection panics on
\* app_data_dir().unwrap().
PersistOutcomes == {"ok", "fail", "panic"}

\* Mutant: persist_window_settings writes nothing.
PersistNothing(row, s, outcome) == row

\* persist_window_settings: the row after the call; every error is dropped.
persist_window_settings(row, s, outcome) ==
    IF outcome = "ok" THEN to_json(s) ELSE row

\* load_window_settings_from_db
load_window_settings_from_db(row) ==
    IF row = NoRow THEN WindowSettingsDefault
    ELSE IF from_json(row) = None THEN WindowSettingsDefault
    ELSE from_json(row)

\* Mutant: a failed persist fails the call.
UpdateResultSurfacing(persist_outcome, setup_ret) ==
    IF persist_outcome = "fail" THEN "Err(persist)"
    ELSE IF setup_ret = "Ok" THEN "Ok" ELSE "Err(window)"

\* The three assignments update_window_settings makes through the write guard,
\* one field at a time; n: how many it has made already.
AssignField(old, n, args) ==
    CASE n = 0 -> [old EXCEPT !.extra_width = args.extra_width]
      [] n = 1 -> [old EXCEPT !.extra_height = args.extra_height]
      [] OTHER -> [old EXCEPT !.non_notch_mode = args.non_notch_mode]

\* Mutant: a reader unwraps the lock result, so a poisoned lock ends its thread.
ReadBlockedOrPoisoned(u) == u.pc \in {"locked", "panicked"} \/ u.other.pc = "locked"

\* Mutant: a reader of the settings does not wait for the writer.
ReadNeverBlocked(u) == FALSE

\* store.read() waits while an update_window_settings call holds the write guard.
ReadBlocked(u) == u.pc = "locked" \/ u.other.pc = "locked"

\* What update_window_settings returns once it holds the lock: persisting
\* returns nothing, only setup_fixed_window_size can fail the call.
UpdateResult(persist_outcome, setup_ret) ==
    IF setup_ret = "Ok" THEN "Ok" ELSE "Err(window)"

\* Mutant: a poisoned lock yields the default settings.
GetSettingsDefaultOnPoison == IF poisoned THEN WindowSettingsDefault ELSE settings

\* get_window_settings: a poisoned lock still yields the value inside it.
get_window_settings == settings

\* ------------------------------------------------------ fixed window geometry

\* Mutant: the width drops the notch in non_notch_mode.
TargetWidthEffective(notch_width, s) ==
    ((IF s.non_notch_mode THEN 0 ELSE notch_width) + BASE_EXTRA) + s.extra_width

TargetWidth(notch_width, s) == (notch_width + BASE_EXTRA) + s.extra_width

\* Mutant: the height is the extra height alone.
TargetHeightExtraOnly(notch_height, s) == s.extra_height

TargetHeight(notch_height, s) == notch_height + s.extra_height
CenteredX(screen_width, width) == Half(screen_width - width)

\* setup_fixed_window_size on window w: set_size, then set_position, each of
\* which may fail; the first failure returns Err.
setup_fixed_window_size(w, info, s, size_ok, pos_ok) ==
    LET tw == TargetWidth(info.notch_width, s)
        th == TargetHeight(info.notch_height, s)
        x  == CenteredX(info.screen_width, tw)
        w1 == IF size_ok THEN [w EXCEPT !.width = tw, !.height = th] ELSE w
        w2 == IF size_ok /\ pos_ok THEN [w1 EXCEPT !.x = x, !.y = 0] ELSE w1
    IN [window |-> w2, ret |-> IF size_ok /\ pos_ok THEN "Ok" ELSE "Err"]

\* fit_to_notch(width, height) on window w: set_size, then set_position; the
\* first failure returns Err.  It reads the screen width only.
fit_to_notch(w, info, width, height, size_ok, pos_ok) ==
    LET x  == Half(info.screen_width - width)
        w1 == IF size_ok THEN [w EXCEPT !.width = width, !.height = height] ELSE w
        w2 == IF size_ok /\ pos_ok THEN [w1 EXCEPT !.x = x, !.y = 0] ELSE w1
    IN [window |-> w2, ret |-> IF size_ok /\ pos_ok THEN "Ok" ELSE "Err"]

\* position_at_notch on window w: centres the notch width, or the window's own
\* width when the notch width is 0 (reading it may fail), at y = 0.
position_at_notch(w, info, size_ok, pos_ok) ==
    LET read_ok == info.notch_width > 0 \/ size_ok
        target_width == IF info.notch_width > 0 THEN info.notch_width ELSE w.width
        x == Half(info.screen_width - target_width)
    IN [window |-> IF read_ok /\ pos_ok THEN [w EXCEPT !.x = x, !.y = 0] ELSE w,
        ret |-> IF read_ok /\ pos_ok THEN "Ok" ELSE "Err"]

\* ------------------------------------------------------ hover detector

\* What setup_mouse_monitoring computes before it spawns the thread.
MacDetectorStart(info, s) ==
    LET win_width == info.notch_width + BASE_EXTRA + s.extra_width
    IN [screen_width |-> info.screen_width, screen_height |-> info.screen_height,
        notch_height |-> info.notch_height, notch_width |-> info.notch_width,
        win_width |-> win_width,
        window_x |-> Half(info.screen_width - win_width),
        settings |-> s]

WinDetectorStart(info, s) ==
    LET effective_notch_width == IF s.non_notch_mode THEN 0 ELSE info.notch_width
        win_width == IF effective_notch_width > 0
                     THEN effective_notch_width + BASE_EXTRA + s.extra_width
                     ELSE WIN_FALLBACK_WIDTH + s.extra_width
    IN [screen_width |-> info.screen_width, screen_height |-> info.screen_height,
        notch_height |-> info.notch_height, notch_width |-> info.notch_width,
        win_width |-> win_width,
        window_x |-> Half(info.screen_width - win_width),
        settings |-> s]

DetectorStart(p, info, s) ==
    IF p = "windows" THEN WinDetectorStart(info, s) ELSE MacDetectorStart(info, s)

\* The cursor position the OS hands to the detector for a point given from the
\* top-left corner: NSEvent.mouseLocation counts y from the bottom of the
\* screen, GetCursorPos from the top.
NativeCursor(p, d, pt) ==
    IF p = "macos" THEN [x |-> pt.x, y |-> d.height - pt.y] ELSE pt

\* The cursor's distance from the top of the screen, as the macOS loop derives it.
FlippedY(screen_height, mouse_loc_y) == screen_height - mouse_loc_y

\* Hysteresis padding of a tick.
\* Mutants: one padding for both states.
MacPaddingNoHysteresis(was_inside) == PADDING_ENTER
WinPaddingFlat(was_inside) == WIN_PADDING_ENTER

MacPadding(was_inside) == IF was_inside THEN PADDING_EXIT ELSE PADDING_ENTER
WinPadding(was_inside) == IF was_inside THEN WIN_PADDING_EXIT ELSE WIN_PADDING_ENTER
SelectPadding(p, was_inside) ==
    IF p = "windows" THEN WinPadding(was_inside) ELSE MacPadding(was_inside)

\* Mutant: the fallback zone keeps the notch's extent in non_notch_mode.
MacFallbackKeepsNotch(s, d) ==
    LET fallback_x_start == Half(d.screen_width - d.notch_width)
    IN [effective_notch_width |-> d.notch_width,
        x_start |-> fallback_x_start,
        x_end |-> fallback_x_start + d.notch_width,
        y_end |-> d.notch_height]

\* The fallback zone of a macOS tick, from the settings read on that tick.
MacFallback(s, d) ==
    LET effective_notch_width == IF s.non_notch_mode THEN 0 ELSE d.notch_width
        fallback_x_start == Half(d.screen_width - effective_notch_width)
    IN [effective_notch_width |-> effective_notch_width,
        x_start |-> fallback_x_start,
        x_end |-> fallback_x_start + effective_notch_width,
        y_end |-> IF s.non_notch_mode THEN 1 ELSE d.notch_height]

\* Mutant: the broad check is as wide in non_notch_mode as without it.
MacBroadPaddingXWide(s) == 300

\* Broad interaction zone check of a macOS tick.
MacBroadPaddingX(s) == IF s.non_notch_mode THEN 60 ELSE 300
MacBroadLimitY(s) == IF s.non_notch_mode THEN 50 ELSE 250
MacInInteractionZone(mouse_x, flipped_y, s, fb) ==
    /\ mouse_x >= fb.x_start - MacBroadPaddingX(s)
    /\ mouse_x <= fb.x_end + MacBroadPaddingX(s)
    /\ flipped_y <= MacBroadLimitY(s)

\* Mutant: the left edge is not tested.
InBoundsNoLeft(mouse_x, mouse_y, window_x, bounds, padding) ==
    LET sx == window_x + bounds.x
        sy == bounds.y
    IN /\ mouse_x <= sx + bounds.width + padding
       /\ mouse_y >= sy - padding
       /\ mouse_y <= sy + bounds.height + padding

\* Hit test against the UI bounds, translated by window_x.
InBounds(mouse_x, mouse_y, window_x, bounds, padding) ==
    LET sx == window_x + bounds.x
        sy == bounds.y
    IN /\ mouse_x >= sx - padding
       /\ mouse_x <= sx + bounds.width + padding
       /\ mouse_y >= sy - padding
       /\ mouse_y <= sy + bounds.height + padding

MacInFallback(mouse_x, flipped_y, fb, padding) ==
    /\ mouse_x >= fb.x_start - padding
    /\ mouse_x <= fb.x_end + padding
    /\ flipped_y >= -padding
    /\ flipped_y <= fb.y_end + padding

\* The fallback zone of a Windows tick: the span of the window as computed at
\* start-up, with the height chosen from the settings captured at start-up.
WinFallback(d) ==
    [effective_notch_width |-> IF d.settings.non_notch_mode THEN 0 ELSE d.notch_width,
     x_start |-> d.window_x,
     x_end |-> d.window_x + d.win_width,
     y_end |-> IF d.settings.non_notch_mode THEN 1 ELSE WIN_FALLBACK_HEIGHT]

WinInFallback(mouse_x, mouse_y, d, padding) ==
    LET fallback_height == WinFallback(d).y_end
    IN /\ mouse_x >= d.window_x - padding
       /\ mouse_x <= d.window_x + d.win_width + padding
       /\ mouse_y >= 0
       /\ mouse_y <= fallback_height + padding

\* get_ui_bounds_store().try_read(): fails while a writer holds the lock.
NotRead == [ok |-> FALSE, value |-> None]
\* Mutant: the read succeeds while a writer holds the lock.
TryReadIgnoringWriter == [ok |-> TRUE, value |-> ui_bounds]

TryReadUiBounds ==
    IF ui_writer # None
    THEN NotRead
    ELSE [ok |-> TRUE, value |-> ui_bounds]

\* Which zone a tick tests: the stored bounds, or the fallback zone.
ZoneOf(guard) == IF guard.ok /\ guard.value # None THEN "bounds" ELSE "fallback"

\* Mutant: a tick that cannot read the bounds finds the cursor outside.
MacInUiAreaNoFallback(mouse_x, flipped_y, guard, d, fb, padding) ==
    IF ZoneOf(guard) = "bounds"
    THEN InBounds(mouse_x, flipped_y, d.window_x, guard.value, padding)
    ELSE FALSE

\* Mutant: the stored bounds are never used.
MacInUiAreaFallbackOnly(mouse_x, flipped_y, guard, d, fb, padding) ==
    MacInFallback(mouse_x, flipped_y, fb, padding)

MacInUiArea(mouse_x, flipped_y, guard, d, fb, padding) ==
    IF ZoneOf(guard) = "bounds"
    THEN InBounds(mouse_x, flipped_y, d.window_x, guard.value, padding)
    ELSE MacInFallback(mouse_x, flipped_y, fb, padding)

WinInUiArea(mouse_x, mouse_y, guard, d, padding) ==
    IF ZoneOf(guard) = "bounds"
    THEN InBounds(mouse_x, mouse_y, d.window_x, guard.value, padding)
    ELSE WinInFallback(mouse_x, mouse_y, d, padding)

\* The calls a tick makes on a transition, in the order of the source.
\* Mutant: the enter transition notifies the UI after the window effects.
MacEnterEffectsWindowFirst(exists) ==
    <<"store_inside", "activate_app">>
      \o (IF exists THEN <<"click_through_off">> ELSE <<>>)
      \o <<"emit_entered">>

MacEnterEffects(exists) ==
    <<"store_inside", "emit_entered", "activate_app">>
      \o (IF exists THEN <<"click_through_off">> ELSE <<>>)
\* Mutant: the exit transition emits nothing.
MacExitEffectsSilent(exists) ==
    <<"store_outside">> \o (IF exists THEN <<"click_through_on">> ELSE <<>>)

MacExitEffects(exists) ==
    <<"store_outside", "emit_exited">>
      \o (IF exists THEN <<"click_through_on">> ELSE <<>>)
WinEnterEffects(exists, handle_ok) ==
    <<"store_inside", "emit_entered">>
      \o (IF exists THEN <<"click_through_off">> ELSE <<>>)
      \o (IF exists /\ handle_ok THEN <<"activate_window">> ELSE <<>>)
WinExitEffects(exists) ==
    <<"store_outside", "emit_exited">>
      \o (IF exists THEN <<"click_through_on">> ELSE <<>>)

\* Mutant: the enter effects are repeated on every tick that finds the cursor inside.
TickEffectsRepeating(p, was_inside, in_ui_area, exists, handle_ok) ==
    IF in_ui_area
    THEN (IF p = "windows" THEN WinEnterEffects(exists, handle_ok) ELSE MacEnterEffects(exists))
    ELSE IF was_inside
    THEN (IF p = "windows" THEN WinExitEffects(exists) ELSE MacExitEffects(exists))
    ELSE <<>>

TickEffects(p, was_inside, in_ui_area, exists, handle_ok) ==
    IF in_ui_area /\ ~was_inside
    THEN (IF p = "windows" THEN WinEnterEffects(exists, handle_ok) ELSE MacEnterEffects(exists))
    ELSE IF ~in_ui_area /\ was_inside
    THEN (IF p = "windows" THEN WinExitEffects(exists) ELSE MacExitEffects(exists))
    ELSE <<>>

Has(effects, e) == \E i \in 1..Len(effects) : effects[i] = e
Count(effects, e) == Cardinality({i \in 1..Len(effects) : effects[i] = e})

\* Mutant: the exit transition leaves the flag set.
FlagAfterNeverCleared(flag, effects) == flag \/ Has(effects, "store_inside")

\* The state the effects of a tick leave behind.
FlagAfter(flag, effects) ==
    IF Has(effects, "store_inside") THEN TRUE
    ELSE IF Has(effects, "store_outside") THEN FALSE
    ELSE flag

EmittedAfter(log, effects) ==
    IF Has(effects, "emit_entered") THEN Append(log, "mouse-entered-notch")
    ELSE IF Has(effects, "emit_exited") THEN Append(log, "mouse-exited-notch")
    ELSE log

\* set_ignore_cursor_events(ignore) on window w; ok: whether the call succeeds.
set_ignore_cursor_events(w, ignore, ok) ==
    IF w.exists /\ ok THEN [w EXCEPT !.ignore = ignore] ELSE w

\* Mutant: the exit transition leaves click-through off.
WindowAfterStale(w, effects, ct_ok) ==
    IF Has(effects, "click_through_off") \/ Has(effects, "click_through_on")
    THEN set_ignore_cursor_events(w, FALSE, ct_ok)
    ELSE w

WindowAfter(w, effects, ct_ok) ==
    IF Has(effects, "click_through_off") THEN set_ignore_cursor_events(w, FALSE, ct_ok)
    ELSE IF Has(effects, "click_through_on") THEN set_ignore_cursor_events(w, TRUE, ct_ok)
    ELSE w

\* ------------------------------------------------------------ start-up

\* Rows the settings table may hold when the application starts.
InitialRows == {NoRow, to_json(WindowSettings(1000, 200, TRUE))}

BlankWindow == [exists |-> TRUE, width |-> 0, height |-> 0, x |-> 0, y |-> 0, ignore |-> FALSE]

\* A second update_window_settings call, from another command-invocation
\* context, before it starts.
IdleCall == [pc |-> "idle", args |-> None, seen |-> None, ret |-> "none"]

NoUpdate ==
    [pc |-> "idle", args |-> None, persist |-> "none", ret |-> "none",
     assigned |-> 0, before |-> None, row |-> NoRow, other |-> IdleCall]

\* The application after its setup hook: the settings are loaded from the
\* database, the main window has its fixed size and ignores the cursor, and
\* the detector thread has captured its geometry.
BootFor(platforms, displays, rows, budget) ==
    /\ platform \in platforms
    /\ display \in displays[platform]
    /\ db \in rows
    /\ settings = load_window_settings_from_db(db)
    /\ poisoned = FALSE
    /\ ui_bounds = None
    /\ ui_writer = None
    /\ LET info == get_screen_info(platform, display, TRUE)
           sized == setup_fixed_window_size(BlankWindow, info, settings, TRUE, TRUE).window
       IN /\ window = set_ignore_cursor_events(sized, TRUE, TRUE)
          /\ det = DetectorStart(platform, info, settings)
          /\ cached_screen_height = info.screen_height
    /\ is_inside = FALSE
    /\ refresh_counter = 0
    /\ since_refresh = 0
    /\ tick_budget = budget
    /\ emitted = <<>>
    /\ upd = NoUpdate
    /\ last = [op |-> "start"]

BootOn(platforms, displays, rows) == BootFor(platforms, displays, rows, MaxTicks)

Boot(platforms, rows) == BootOn(platforms, [p \in Platforms |-> DisplaysOf(p)], rows)

Init == Boot(Platforms, InitialRows)

\* ------------------------------------------------------------ detector ticks

\* Outcomes of the fallible calls a tick with these effects makes (one outcome
\* where it makes none).
ClickThroughOutcomes(effects) ==
    IF Has(effects, "click_through_off") \/ Has(effects, "click_through_on")
    THEN BOOLEAN ELSE {TRUE}

\* Mutant: the screen height is queried on the tick after a multiple of 500.
RefreshDueAfter(rc) == rc % REFRESH_EVERY = 1

\* refresh_counter.wrapping_add(1) on a u16, and the test for a refresh.
wrapping_add(c) == (c + 1) % U16
RefreshDue(rc) == rc % REFRESH_EVERY = 0

\* One iteration of the macOS loop.  pt: where the cursor is (from the top-left
\* corner); ct_ok: whether set_ignore_cursor_events succeeds if it is called.
\* get_window_settings takes the read lock, so the tick waits for a writer.
MacTick(pt) ==
    /\ platform = "macos"
    /\ tick_budget > 0
    /\ ~ReadBlocked(upd)
    /\ LET s == get_window_settings
           fb == MacFallback(s, det)
           mouse_loc == NativeCursor(platform, display, pt)
           rc == wrapping_add(refresh_counter)
           csh == IF RefreshDue(rc)
                  THEN get_screen_info(platform, display, FALSE).screen_height
                  ELSE cached_screen_height
           mouse_x == mouse_loc.x
           flipped_y == FlippedY(csh, mouse_loc.y)
           was_inside == is_inside
           in_zone == MacInInteractionZone(mouse_x, flipped_y, s, fb)
           skipped == ~in_zone /\ ~was_inside
           padding == MacPadding(was_inside)
           guard == TryReadUiBounds
           in_ui_area == MacInUiArea(mouse_x, flipped_y, guard, det, fb, padding)
           effects == IF skipped THEN <<>>
                      ELSE TickEffects(platform, was_inside, in_ui_area, window.exists, TRUE)
       IN \E ct_ok \in ClickThroughOutcomes(effects) :
          /\ refresh_counter' = rc
          /\ since_refresh' = IF RefreshDue(rc) THEN 0 ELSE since_refresh + 1
          /\ cached_screen_height' = csh
          /\ is_inside' = FlagAfter(is_inside, effects)
          /\ emitted' = EmittedAfter(emitted, effects)
          /\ window' = WindowAfter(window, effects, ct_ok)
          /\ last' = [op |-> "tick", pt |-> pt, sampled |-> TRUE, skipped |-> skipped,
                      mouse_x |-> mouse_x, mouse_y |-> flipped_y,
                      was_inside |-> was_inside, settings |-> s, zone |-> fb,
                      padding |-> IF skipped THEN 0 ELSE padding,
                      guard |-> IF skipped THEN NotRead ELSE guard,
                      in_ui_area |-> ~skipped /\ in_ui_area,
                      effects |-> effects, ct_ok |-> ct_ok, handle_ok |-> TRUE]
    /\ tick_budget' = tick_budget - 1
    /\ UNCHANGED << platform, display, settings, poisoned, db, ui_bounds, ui_writer,
                    det, upd >>

\* One iteration of the Windows loop.  got: whether GetCursorPos succeeds;
\* handle_ok: whether window_handle() yields the Win32 handle.
WinTick(pt, got) ==
    /\ platform = "windows"
    /\ tick_budget > 0
    /\ LET mouse_loc == NativeCursor(platform, display, pt)
           mouse_x == mouse_loc.x
           mouse_y == mouse_loc.y
           was_inside == is_inside
           padding == WinPadding(was_inside)
           guard == TryReadUiBounds
           in_ui_area == WinInUiArea(mouse_x, mouse_y, guard, det, padding)
           entering == got /\ in_ui_area /\ ~was_inside /\ window.exists
       IN \E handle_ok \in (IF entering THEN BOOLEAN ELSE {TRUE}) :
          LET effects == IF ~got THEN <<>>
                         ELSE TickEffects(platform, was_inside, in_ui_area,
                                          window.exists, handle_ok)
          IN \E ct_ok \in ClickThroughOutcomes(effects) :
          /\ is_inside' = FlagAfter(is_inside, effects)
          /\ emitted' = EmittedAfter(emitted, effects)
          /\ window' = WindowAfter(window, effects, ct_ok)
          /\ last' = [op |-> "tick", pt |-> pt, sampled |-> got, skipped |-> FALSE,
                      mouse_x |-> mouse_x, mouse_y |-> mouse_y,
                      was_inside |-> was_inside, settings |-> det.settings,
                      zone |-> WinFallback(det),
                      padding |-> IF got THEN padding ELSE 0,
                      guard |-> IF got THEN guard ELSE NotRead,
                      in_ui_area |-> got /\ in_ui_area,
                      effects |-> effects, ct_ok |-> ct_ok, handle_ok |-> handle_ok]
    /\ tick_budget' = tick_budget - 1
    /\ UNCHANGED << platform, display, settings, poisoned, db, ui_bounds, ui_writer,
                    det, cached_screen_height, refresh_counter, since_refresh, upd >>

\* ------------------------------------------------------------ commands

\* get_window_settings, called by the UI layer (waits while a writer holds the lock).
GetWindowSettings ==
    /\ ~ReadBlocked(upd)
    /\ last' = [op |-> "get_window_settings", ret |-> get_window_settings]
    /\ UNCHANGED << platform, display, settings, poisoned, db, ui_bounds, ui_writer,
                    window, is_inside, det, cached_screen_height, refresh_counter, since_refresh,
                    tick_budget, emitted, upd >>

\* get_notch_info, called by the UI layer: derived per query, nothing stored.
GetNotchInfo ==
    /\ last' = [op |-> "get_notch_info", ret |-> get_notch_info(platform, display)]
    /\ UNCHANGED << platform, display, settings, poisoned, db, ui_bounds, ui_writer,
                    window, is_inside, det, cached_screen_height, refresh_counter, since_refresh,
                    tick_budget, emitted, upd >>

\* update_window_settings(w, h, m), first step: store.write().  A poisoned lock
\* returns Err at once; otherwise the call holds the write guard.
UpdateLock(w, h, m) ==
    /\ upd.pc \in {"idle", "returned", "panicked"}
    /\ upd.other.pc # "locked"
    /\ IF poisoned
       THEN /\ upd' = [pc |-> "returned", args |-> WindowSettings(w, h, m),
                       persist |-> "none", ret |-> "Err(poisoned)",
                       assigned |-> 0, before |-> None, row |-> NoRow,
                       other |-> upd.other]
            /\ last' = [op |-> "update_window_settings", ret |-> "Err(poisoned)",
                        ran_setup |-> FALSE]
       ELSE /\ upd' = [pc |-> "locked", args |-> WindowSettings(w, h, m),
                       persist |-> "none", ret |-> "none",
                       assigned |-> 0, before |-> settings, row |-> db,
                       other |-> upd.other]
            /\ UNCHANGED last
    /\ UNCHANGED << platform, display, settings, poisoned, db, ui_bounds, ui_writer,
                    window, is_inside, det, cached_screen_height, refresh_counter, since_refresh,
                    tick_budget, emitted >>

\* Under the write guard: the next of the three field assignments.
UpdateAssign ==
    /\ upd.pc = "locked"
    /\ upd.assigned < 3
    /\ settings' = AssignField(settings, upd.assigned, upd.args)
    /\ upd' = [upd EXCEPT !.assigned = upd.assigned + 1]
    /\ UNCHANGED << platform, display, poisoned, db, ui_bounds, ui_writer, window,
                    is_inside, det, cached_screen_height, refresh_counter, since_refresh,
                    tick_budget, emitted, last >>

\* Still under the write guard: persist_window_settings, then the guard is
\* dropped.  A panic inside get_connection unwinds through the guard and
\* poisons the lock; the call never returns.
UpdatePersist(outcome) ==
    /\ upd.pc = "locked"
    /\ upd.assigned = 3
    /\ db' = persist_window_settings(db, settings, outcome)
    /\ poisoned' = (outcome = "panic")
    /\ upd' = [upd EXCEPT !.pc = IF outcome = "panic" THEN "panicked" ELSE "resize",
                          !.persist = outcome, !.assigned = 0,
                          !.before = IF outcome = "panic" THEN None ELSE upd.before,
                          !.row = IF outcome = "panic" THEN NoRow ELSE upd.row]
    /\ UNCHANGED << platform, display, settings, ui_bounds, ui_writer, window,
                    is_inside, det, cached_screen_height, refresh_counter, since_refresh,
                    tick_budget, emitted, last >>

\* Last step: setup_fixed_window_size on the window labelled "main", if there
\* is one, and the return.
UpdateResize(size_ok, pos_ok) ==
    /\ upd.pc = "resize"
    /\ window.exists => ~ReadBlocked(upd)
    /\ LET info == get_screen_info(platform, display, TRUE)
           s == get_window_settings
           r == IF window.exists
                THEN setup_fixed_window_size(window, info, s, size_ok, pos_ok)
                ELSE [window |-> window, ret |-> "Ok"]
           ret == UpdateResult(upd.persist, r.ret)
       IN /\ window' = r.window
          /\ upd' = [upd EXCEPT !.pc = "returned", !.ret = ret, !.before = None,
                                !.row = NoRow]
          /\ last' = [op |-> "update_window_settings", ret |-> ret,
                      ran_setup |-> window.exists, info |-> info, settings |-> s,
                      size_ok |-> size_ok, pos_ok |-> size_ok /\ pos_ok]
    /\ UNCHANGED << platform, display, settings, poisoned, db, ui_bounds, ui_writer,
                    is_inside, det, cached_screen_height, refresh_counter, since_refresh,
                    tick_budget, emitted >>

\* A second update_window_settings(w, h, m) call that may overlap the first.
\* Its first step: store.write(), which waits while the lock is held.
OtherLock(w, h, m) ==
    /\ upd.other.pc \in {"idle", "returned"}
    /\ upd.pc # "locked"
    /\ ~poisoned
    /\ upd' = [upd EXCEPT !.other = [pc |-> "locked", args |-> WindowSettings(w, h, m),
                                     seen |-> None, ret |-> "none"]]
    /\ UNCHANGED << platform, display, settings, poisoned, db, ui_bounds, ui_writer,
                    window, is_inside, det, cached_screen_height, refresh_counter, since_refresh,
                    tick_budget, emitted, last >>

\* Under the write guard: the three assignments and persist_window_settings,
\* then the guard is dropped.
OtherStore ==
    /\ upd.other.pc = "locked"
    /\ settings' = upd.other.args
    /\ db' = persist_window_settings(db, upd.other.args, "ok")
    /\ upd' = [upd EXCEPT !.other.pc = "read"]
    /\ UNCHANGED << platform, display, poisoned, ui_bounds, ui_writer, window,
                    is_inside, det, cached_screen_height, refresh_counter, since_refresh,
                    tick_budget, emitted, last >>

\* setup_fixed_window_size, first half: get_screen_info and
\* get_window_settings (no main window: the call returns Ok at once).
OtherRead ==
    /\ upd.other.pc = "read"
    /\ upd.pc # "locked"
    /\ upd' = IF window.exists
              THEN [upd EXCEPT !.other.pc = "apply", !.other.seen = get_window_settings]
              ELSE [upd EXCEPT !.other.pc = "returned", !.other.ret = "Ok"]
    /\ UNCHANGED << platform, display, settings, poisoned, db, ui_bounds, ui_writer,
                    window, is_inside, det, cached_screen_height, refresh_counter, since_refresh,
                    tick_budget, emitted, last >>

\* setup_fixed_window_size, second half: set_size and set_position with what
\* the first half computed, and the return.
OtherApply(size_ok, pos_ok) ==
    /\ upd.other.pc = "apply"
    /\ LET info == get_screen_info(platform, display, TRUE)
           r == setup_fixed_window_size(window, info, upd.other.seen, size_ok, pos_ok)
           ret == UpdateResult("ok", r.ret)
       IN /\ window' = r.window
          /\ upd' = [upd EXCEPT !.other.pc = "returned", !.other.ret = ret]
          /\ last' = [op |-> "update_window_settings (second caller)", ret |-> ret,
                      settings |-> upd.other.seen]
    /\ UNCHANGED << platform, display, settings, poisoned, db, ui_bounds, ui_writer,
                    is_inside, det, cached_screen_height, refresh_counter, since_refresh,
                    tick_budget, emitted >>

\* update_ui_bounds(x, y, width, height), first step: store.write().
UiBoundsLock(b) ==
    /\ ui_writer = None
    /\ ui_writer' = b
    /\ UNCHANGED << platform, display, settings, poisoned, db, ui_bounds, window,
                    is_inside, det, cached_screen_height, refresh_counter, since_refresh,
                    tick_budget, emitted, upd, last >>

\* Mutant: storing the bounds also fits the main window to them.
UiBoundsStoreFitting ==
    /\ ui_writer # None
    /\ ui_bounds' = ui_writer
    /\ ui_writer' = None
    /\ window' = [window EXCEPT !.width = ui_writer.width, !.height = ui_writer.height]
    /\ last' = [op |-> "update_ui_bounds", ret |-> "Ok"]
    /\ UNCHANGED << platform, display, settings, poisoned, db,
                    is_inside, det, cached_screen_height, refresh_counter, since_refresh,
                    tick_budget, emitted, upd >>

\* Second step: the assignment and the release of the lock.
UiBoundsStore ==
    /\ ui_writer # None
    /\ ui_bounds' = ui_writer
    /\ ui_writer' = None
    /\ last' = [op |-> "update_ui_bounds", ret |-> "Ok"]
    /\ UNCHANGED << platform, display, settings, poisoned, db, window,
                    is_inside, det, cached_screen_height, refresh_counter, since_refresh,
                    tick_budget, emitted, upd >>

\* set_click_through(ignore), invoked from the window labelled target.
SetClickThrough(target, ignore, ok) ==
    /\ target = "main" => window.exists
    /\ window' = IF target = "main"
                 THEN set_ignore_cursor_events(window, ignore, ok)
                 ELSE window
    /\ last' = [op |-> "set_click_through", ret |-> IF ok THEN "Ok" ELSE "Err"]
    /\ UNCHANGED << platform, display, settings, poisoned, db, ui_bounds, ui_writer,
                    is_inside, det, cached_screen_height, refresh_counter, since_refresh,
                    tick_budget, emitted, upd >>

\* Mutant: fit_to_notch also records the size as the extra width and height.
FitToNotchStoring(target, width, height, size_ok, pos_ok) ==
    /\ target = "main" => window.exists
    /\ LET info == get_screen_info(platform, display, TRUE)
           r == fit_to_notch(window, info, width, height, size_ok, pos_ok)
       IN /\ window' = IF target = "main" THEN r.window ELSE window
          /\ settings' = [settings EXCEPT !.extra_width = width, !.extra_height = height]
          /\ last' = [op |-> "fit_to_notch", target |-> target, ret |-> r.ret,
                      width |-> width, height |-> height, info |-> info]
    /\ UNCHANGED << platform, display, poisoned, db, ui_bounds, ui_writer,
                    is_inside, det, cached_screen_height, refresh_counter, since_refresh,
                    tick_budget, emitted, upd >>

\* fit_to_notch(width, height), invoked from the window labelled target.
FitToNotch(target, width, height, size_ok, pos_ok) ==
    /\ target = "main" => window.exists
    /\ LET info == get_screen_info(platform, display, TRUE)
           r == fit_to_notch(window, info, width, height, size_ok, pos_ok)
       IN /\ window' = IF target = "main" THEN r.window ELSE window
          /\ last' = [op |-> "fit_to_notch", target |-> target, ret |-> r.ret,
                      width |-> width, height |-> height, info |-> info]
    /\ UNCHANGED << platform, display, settings, poisoned, db, ui_bounds, ui_writer,
                    is_inside, det, cached_screen_height, refresh_counter, since_refresh,
                    tick_budget, emitted, upd >>

\* position_at_notch, invoked from the window labelled target.
PositionAtNotch(target, size_ok, pos_ok) ==
    /\ target = "main" => window.exists
    /\ LET info == get_screen_info(platform, display, TRUE)
           r == position_at_notch(window, info, size_ok, pos_ok)
       IN /\ window' = IF target = "main" THEN r.window ELSE window
          /\ last' = [op |-> "position_at_notch", target |-> target, ret |-> r.ret,
                      info |-> info]
    /\ UNCHANGED << platform, display, settings, poisoned, db, ui_bounds, ui_writer,
                    is_inside, det, cached_screen_height, refresh_counter, since_refresh,
                    tick_budget, emitted, upd >>

\* The process ends (at any point) and the application starts again: the
\* stores are fresh statics, the settings are loaded from the database, and
\* the setup hook runs as at the first start.  readable: whether the
\* connection, the statement and the query succeed; where they fail the load
\* finds no record.
Restart(readable) ==
    /\ settings' = load_window_settings_from_db(IF readable THEN db ELSE NoRow)
    /\ poisoned' = FALSE
    /\ ui_bounds' = None
    /\ ui_writer' = None
    /\ LET info == get_screen_info(platform, display, TRUE)
           sized == setup_fixed_window_size(BlankWindow, info, settings', TRUE, TRUE).window
       IN /\ window' = set_ignore_cursor_events(sized, TRUE, TRUE)
          /\ det' = DetectorStart(platform, info, settings')
          /\ cached_screen_height' = info.screen_height
    /\ is_inside' = FALSE
    /\ refresh_counter' = 0
    /\ since_refresh' = 0
    /\ emitted' = << >>
    /\ upd' = NoUpdate
    /\ last' = [op |-> "start", readable |-> readable]
    /\ UNCHANGED << platform, display, db, tick_budget >>

\* The main window is closed: get_webview_window("main") yields None from now on.
CloseMain ==
    /\ window.exists
    /\ window' = [window EXCEPT !.exists = FALSE]
    /\ last' = [op |-> "close_main"]
    /\ UNCHANGED << platform, display, settings, poisoned, db, ui_bounds, ui_writer,
                    is_inside, det, cached_screen_height, refresh_counter, since_refresh,
                    tick_budget, emitted, upd >>

\* ------------------------------------------------------------ specification

\* Arguments the UI layer passes to update_window_settings.
UpdateArgs ==
    { WindowSettings(400, 800, FALSE), WindowSettings(1000, 200, TRUE),
      WindowSettings(400, 200, TRUE), WindowSettings(1000, 800, FALSE) }

Tick ==
    \/ \E pt \in CursorPoints : MacTick(pt)
    \/ \E pt \in CursorPoints, got \in BOOLEAN : WinTick(pt, got)

UpdateWindowSettings(args, outcomes, oks) ==
    \/ \E a \in args : UpdateLock(a.extra_width, a.extra_height, a.non_notch_mode)
    \/ UpdateAssign
    \/ \E outcome \in outcomes : UpdatePersist(outcome)
    \/ \E size_ok \in oks, pos_ok \in oks : UpdateResize(size_ok, pos_ok)

UpdateUiBounds(values) ==
    \/ \E b \in values : UiBoundsLock(b)
    \/ UiBoundsStore

SetClickThroughCommand ==
    \E target \in {"main", "settings"}, ignore \in BOOLEAN, ok \in BOOLEAN :
        SetClickThrough(target, ignore, ok)

\* The whole program.
Next ==
    \/ Tick
    \/ GetWindowSettings
    \/ UpdateWindowSettings(UpdateArgs, PersistOutcomes, BOOLEAN)
    \/ UpdateUiBounds(BoundsValues)
    \/ SetClickThroughCommand
    \/ CloseMain

Spec == Init /\ [][Next]_vars

\* The settings store and the fixed window geometry: the commands of the UI
\* layer that read and write WindowSettings, on every build target.
NextSettings ==
    \/ GetWindowSettings
    \/ UpdateWindowSettings(UpdateArgs, PersistOutcomes, BOOLEAN)
    \/ CloseMain

SpecSettings == Init /\ [][NextSettings]_vars

\* The hover detector of the two targets that run one, started with the
\* default settings, against the commands that touch what a tick reads or
\* writes: the UI bounds, click-through, the main window, and a runtime toggle
\* of non_notch_mode.
HoverArgs == { WindowSettings(400, 800, FALSE), WindowSettings(400, 800, TRUE) }

InitHover == Boot({"macos", "windows"}, {NoRow})

NextHover ==
    \/ Tick
    \/ UpdateWindowSettings(HoverArgs, {"ok"}, {TRUE})
    \/ UpdateUiBounds({Bounds1})
    \/ SetClickThroughCommand
    \/ CloseMain

SpecHover == InitHover /\ [][NextHover]_vars

\* The detector loop as the scheduler runs it: the thread is never joined or
\* cancelled, and an iteration that waits for the settings lock gets it once
\* the writer releases it (strong fairness: the lock is free again and again
\* between two commands); a command that holds the settings lock runs on to
\* its release.  The loop is followed against a settings writer that may
\* panic and a main window that may go away.
NextLoop ==
    \/ Tick
    \/ UpdateWindowSettings({WindowSettingsDefault}, {"ok", "panic"}, {TRUE})
    \/ CloseMain

SpecLoop ==
    /\ InitHover /\ [][NextLoop]_vars
    /\ SF_tick_budget(Tick)
    /\ WF_upd(UpdateAssign)
    /\ WF_upd(\E outcome \in {"ok", "panic"} : UpdatePersist(outcome))

\* The detectors started with either mode stored in the database, against the
\* commands that change what the fallback zone is computed from.
InitZones == Boot({"macos", "windows"}, InitialRows)

NextZones ==
    \/ Tick
    \/ UpdateWindowSettings(HoverArgs, {"ok"}, {TRUE})
    \/ UpdateUiBounds({Bounds1})

SpecZones == InitZones /\ [][NextZones]_vars

\* The detectors against update_ui_bounds calls alone.
NextBounds ==
    \/ Tick
    \/ UpdateUiBounds(BoundsValues)

SpecBounds == InitHover /\ [][NextBounds]_vars

\* The two stores with their writers and their readers (the macOS loop reads
\* both); the two settings values written differ in every field.
StoreArgs == { WindowSettings(400, 800, FALSE), WindowSettings(1000, 200, TRUE) }

InitStores == Boot({"macos"}, {NoRow})

NextStores ==
    \/ \E pt \in CursorPoints : MacTick(pt)
    \/ GetWindowSettings
    \/ UpdateWindowSettings(StoreArgs, {"ok"}, {TRUE})
    \/ UpdateUiBounds(BoundsValues)

SpecStores == InitStores /\ [][NextStores]_vars

\* The readers of the settings store (the command and the detector loops)
\* against update_window_settings calls that may panic while persisting.
NextPoison ==
    \/ Tick
    \/ GetWindowSettings
    \/ UpdateWindowSettings(HoverArgs, {"ok", "panic"}, {TRUE})

SpecPoison == InitHover /\ [][NextPoison]_vars

\* ------------------------------------------------------------ properties

\* What the state right after a detector tick says about that tick.
AfterTick == last.op = "tick" /\ last.sampled
Flipped == AfterTick /\ is_inside # last.was_inside
Entered == Flipped /\ is_inside
Exited == Flipped /\ ~is_inside
At(x, y) == last.pt = [x |-> x, y |-> y]

ExitPaddingOf(p) == IF p = "windows" THEN WIN_PADDING_EXIT ELSE PADDING_EXIT
EnterPaddingOf(p) == IF p = "windows" THEN WIN_PADDING_ENTER ELSE PADDING_ENTER

\* pt lies within the rectangle of the bounds b, moved by window_x and grown by pad.
Within(pt, b, window_x, pad) ==
    /\ pt.x >= window_x + b.x - pad
    /\ pt.x <= window_x + b.x + b.width + pad
    /\ pt.y >= b.y - pad
    /\ pt.y <= b.y + b.height + pad

\* The geometry query and the fixed window geometry on every display the
\* targets can report, with the writes that change what the geometry is
\* computed from.
InitGeometry == BootOn(Platforms, [p \in Platforms |-> GeometryDisplaysOf(p)], {NoRow})

NextGeometry ==
    \/ GetNotchInfo
    \/ UpdateWindowSettings(StoreArgs, {"ok"}, BOOLEAN)
    \/ CloseMain

SpecGeometry == InitGeometry /\ [][NextGeometry]_vars

\* The macOS detector around its broad pre-filter: cursor positions on both
\* sides of the pre-filter's region in either mode, with UI bounds that lie
\* inside and outside of it, and a runtime toggle of non_notch_mode.
Bounds3 == [x |-> 150, y |-> 0, width |-> 100, height |-> 40]

FilterPoints ==
    { [x |-> 550, y |-> 10],    \* inside Bounds1 at window_x = 500
      [x |-> 700, y |-> 10],    \* inside Bounds3; 180 px left of the screen centre
      [x |-> 880, y |-> 10],    \* top centre
      [x |-> 880, y |-> 100],   \* centre, below the 50 px limit
      [x |-> 50,  y |-> 600] }  \* far away

NextFilter ==
    \/ \E pt \in FilterPoints : MacTick(pt)
    \/ UpdateWindowSettings({WindowSettings(400, 800, TRUE)}, {"ok"}, {TRUE})
    \/ UpdateUiBounds({Bounds1, Bounds3})

SpecFilter == InitStores /\ [][NextFilter]_vars

\* Starts and restarts of the application on every kind of record the
\* database may hold: none, one written before non_notch_mode existed, one
\* that does not parse; with the updates that write new records.
LegacyRow == << <<"extra_width", 1000>>, <<"extra_height", 200>> >>
BrokenRow == << <<"extra_width", 1000>> >>
LoadRows == {NoRow, LegacyRow, BrokenRow}

InitRestart == Boot({"macos"}, LoadRows)

NextRestart ==
    \/ \E readable \in BOOLEAN : Restart(readable)
    \/ GetWindowSettings
    \/ UpdateWindowSettings(StoreArgs, PersistOutcomes, {TRUE})

SpecRestart == InitRestart /\ [][NextRestart]_vars

\* Two command-invocation contexts that call update_window_settings with
\* different values and may overlap.
OtherUpdate(args) ==
    \/ \E a \in args : OtherLock(a.extra_width, a.extra_height, a.non_notch_mode)
    \/ OtherStore
    \/ OtherRead
    \/ OtherApply(TRUE, TRUE)

NextOverlap ==
    \/ UpdateWindowSettings({WindowSettings(1000, 200, TRUE)}, {"ok"}, {TRUE})
    \/ OtherUpdate({WindowSettings(400, 200, FALSE)})
    \/ GetWindowSettings

SpecOverlap == InitStores /\ [][NextOverlap]_vars

\* The legacy positioning commands against everything they must leave alone:
\* the settings and their writer, the UI bounds and the hover flag.
FitSizes == { [width |-> 300, height |-> 60] }

LegacyPoints == { [x |-> 880, y |-> 10] }

FitToNotchCommand ==
    \E target \in {"main", "settings"}, sz \in FitSizes, size_ok \in BOOLEAN, pos_ok \in BOOLEAN :
        FitToNotch(target, sz.width, sz.height, size_ok, pos_ok)

PositionAtNotchCommand ==
    \E target \in {"main", "settings"}, size_ok \in BOOLEAN, pos_ok \in BOOLEAN :
        PositionAtNotch(target, size_ok, pos_ok)

InitLegacy == BootOn({"macos", "windows"}, [p \in Platforms |-> DisplaysOf(p)], {NoRow})

NextLegacy ==
    \/ FitToNotchCommand
    \/ PositionAtNotchCommand
    \/ \E pt \in LegacyPoints : MacTick(pt)
    \/ UpdateWindowSettings({WindowSettings(1000, 200, TRUE)}, {"ok"}, {TRUE})
    \/ UpdateUiBounds({Bounds1})

SpecLegacy == InitLegacy /\ [][NextLegacy]_vars

\* The state right after update_window_settings ran setup_fixed_window_size.
AfterSetup == last.op = "update_window_settings" /\ last.ran_setup

\* C1 (as stated): the width setup_fixed_window_size applies is
\* (0 if non_notch_mode else notch_width) + 160 + extra_width, and x centres it.
C1_EffectiveWidth ==
    AfterSetup /\ last.size_ok =>
        /\ window.width = (IF last.settings.non_notch_mode THEN 0 ELSE last.info.notch_width)
                            + 160 + last.settings.extra_width
        /\ last.pos_ok => window.x = (last.info.screen_width - window.width) \div 2

\* C1 (amended): the width setup_fixed_window_size applies is
\* notch_width + 160 + extra_width whatever non_notch_mode is, and the x it
\* applies is (screen_width - width) / 2.
C1_FixedWidth ==
    AfterSetup /\ last.size_ok =>
        /\ window.width = last.info.notch_width + 160 + last.settings.extra_width
        /\ last.pos_ok => window.x = (last.info.screen_width - window.width) \div 2

C1_Witness ==
    /\ AfterSetup /\ last.size_ok /\ last.pos_ok
    /\ last.settings.non_notch_mode /\ last.info.notch_width > 0

\* C2: with the UI bounds and the settings unchanged (no writer in flight), the
\* tick that enters emits exactly one 'mouse-entered-notch', and every later
\* tick that finds the state Inside and the cursor within the exit-padded zone
\* (the stored bounds, or the fallback zone when none are stored) keeps the
\* state Inside and emits nothing: the trajectory yields one entered, no exited.
ExitZoneHolds(pt) ==
    IF ui_bounds # None
    THEN Within(pt, ui_bounds, det.window_x, ExitPaddingOf(platform))
    ELSE IF platform = "macos"
    THEN LET w == IF settings.non_notch_mode THEN 0 ELSE det.notch_width
             x0 == (det.screen_width - w) \div 2
             h == IF settings.non_notch_mode THEN 1 ELSE det.notch_height
         IN /\ pt.x >= x0 - PADDING_EXIT /\ pt.x <= x0 + w + PADDING_EXIT
            /\ pt.y >= -PADDING_EXIT /\ pt.y <= h + PADDING_EXIT
    ELSE FALSE

TickStep == tick_budget' = tick_budget - 1 /\ last'.sampled

C2_NoFlicker ==
    [][ TickStep /\ ui_writer = None =>
          /\ (~is_inside /\ is_inside') =>
                emitted' = Append(emitted, "mouse-entered-notch")
          /\ (is_inside /\ ExitZoneHolds(last'.pt)) =>
                (is_inside' /\ emitted' = emitted) ]_vars

\* The cursor came back across the enter boundary and sits in the gap between
\* the enter and the exit padding, and the one notification is the entered.
C2_Witness ==
    /\ AfterTick /\ last.was_inside /\ is_inside
    /\ ui_bounds = Bounds1 /\ ui_writer = None
    /\ Within(last.pt, ui_bounds, det.window_x, ExitPaddingOf(platform))
    /\ ~Within(last.pt, ui_bounds, det.window_x, EnterPaddingOf(platform))
    /\ emitted = <<"mouse-entered-notch">>

\* C3 (as stated): every tick that flips the state sets the flag, requests the
\* click-through change on the main window, requests activation when entering,
\* and emits exactly one notification.
C3_AllEffects ==
    /\ Entered =>
         /\ Has(last.effects, "store_inside")
         /\ Has(last.effects, "click_through_off")
         /\ (Has(last.effects, "activate_app") \/ Has(last.effects, "activate_window"))
         /\ Count(last.effects, "emit_entered") = 1
         /\ Count(last.effects, "emit_exited") = 0
    /\ Exited =>
         /\ Has(last.effects, "store_outside")
         /\ Has(last.effects, "click_through_on")
         /\ Count(last.effects, "emit_exited") = 1
         /\ Count(last.effects, "emit_entered") = 0

\* C3 (amended): every tick that flips the state sets the flag and emits exactly
\* one matching notification; it requests the click-through change if a window
\* labelled "main" exists; entering requests activation of the application on
\* macOS and, on Windows, of the main window if it exists and yields its handle.
C3_EffectsWhenMainExists ==
    /\ Entered =>
         /\ Has(last.effects, "store_inside")
         /\ window.exists => Has(last.effects, "click_through_off")
         /\ platform = "macos" => Has(last.effects, "activate_app")
         /\ (platform = "windows" /\ window.exists /\ last.handle_ok)
               => Has(last.effects, "activate_window")
         /\ Count(last.effects, "emit_entered") = 1
         /\ Count(last.effects, "emit_exited") = 0
         /\ emitted[Len(emitted)] = "mouse-entered-notch"
    /\ Exited =>
         /\ Has(last.effects, "store_outside")
         /\ window.exists => Has(last.effects, "click_through_on")
         /\ Count(last.effects, "emit_exited") = 1
         /\ Count(last.effects, "emit_entered") = 0
         /\ emitted[Len(emitted)] = "mouse-exited-notch"

C3_Witness == Exited /\ window.exists /\ Len(emitted) = 2

\* C4 (as stated): in every reachable state the main window ignores cursor
\* events if and only if the hover state is Outside.
C4_FlagDecidesClickThrough ==
    window.exists => (window.ignore <=> ~is_inside)

\* C4 (amended): right after a tick that flips the state, if the main window
\* exists and the set_ignore_cursor_events call succeeded, the window ignores
\* cursor events if and only if the state is Outside.
C4_AfterSuccessfulTransition ==
    (Flipped /\ window.exists /\ last.ct_ok) => (window.ignore <=> ~is_inside)

C4_Witness == Exited /\ window.exists /\ last.ct_ok /\ window.ignore

\* C5: once update_window_settings(w, h, m) has returned, a following
\* get_window_settings returns exactly {w, h, m}.
C5_RoundTrip ==
    (upd.pc = "returned" /\ last.op = "get_window_settings") => last.ret = upd.args

\* C6 (as stated): when persisting fails, update_window_settings returns an
\* error and the in-memory settings hold the new values.
C6_PersistFailureSurfaced ==
    (upd.pc = "returned" /\ upd.persist = "fail") =>
        (upd.ret # "Ok" /\ settings = upd.args)

\* C6 (amended): when persisting fails, the in-memory settings hold the new
\* values and the failure is not reported: the call returns Ok unless resizing
\* the main window fails.
C6_PersistFailureSilent ==
    (upd.pc = "returned" /\ upd.persist = "fail") =>
        /\ settings = upd.args
        /\ upd.ret \in {"Ok", "Err(window)"}
        /\ (last.op = "update_window_settings" /\ (~last.ran_setup \/ last.pos_ok))
              => upd.ret = "Ok"

C6_Witness ==
    /\ upd.pc = "returned" /\ upd.persist = "fail" /\ upd.ret = "Ok"
    /\ last.op = "update_window_settings" /\ last.ran_setup
    /\ settings # load_window_settings_from_db(db)

\* C7: on every tick of either detector, the padding selected in state Outside
\* is strictly smaller than the padding selected in state Inside.
C7_EnterBelowExit ==
    (AfterTick /\ ~last.skipped) =>
        IF last.was_inside
        THEN last.padding > SelectPadding(platform, FALSE)
        ELSE last.padding < SelectPadding(platform, TRUE)

C7_Witness == AfterTick /\ last.was_inside /\ platform = "windows" /\ last.padding = 30

\* Scenarios B, C, D: the bounds {0, 0, 100, 40} are stored and window_x is 500.
Scenario == ui_bounds = Bounds1 /\ det.window_x = 500

C9_EnterAt550 ==
    (AfterTick /\ Scenario /\ ui_writer = None /\ ~last.was_inside /\ At(550, 10)) =>
        (last.in_ui_area /\ is_inside)

\* C10 (as stated): in state Inside, a tick with the cursor no further outside
\* the stored bounds than the exit padding stays Inside, emits nothing and
\* makes no click-through call.
C10_StickyExit ==
    (AfterTick /\ last.was_inside /\ ui_bounds # None
       /\ Within(last.pt, ui_bounds, det.window_x, ExitPaddingOf(platform))) =>
        (is_inside /\ last.effects = <<>>)

\* C10 (amended): the same, for a tick whose non-blocking read of the bounds
\* succeeds, that is, while no update_ui_bounds call holds the write lock.
C10_StickyExitUncontended ==
    (AfterTick /\ last.was_inside /\ ui_bounds # None /\ ui_writer = None
       /\ Within(last.pt, ui_bounds, det.window_x, ExitPaddingOf(platform))) =>
        (is_inside /\ last.effects = <<>>)

C10_Witness ==
    /\ AfterTick /\ last.was_inside /\ Scenario /\ ui_writer = None
    /\ At(495, 10) /\ is_inside /\ window.exists /\ ~window.ignore

C12_NoEffectWithoutTransition ==
    [][ /\ (TickStep /\ last'.in_ui_area = is_inside) =>
              /\ last'.effects = <<>>
              /\ is_inside' = is_inside
              /\ emitted' = emitted
              /\ window' = window
        /\ Len(emitted') - Len(emitted) <= (IF is_inside' # is_inside THEN 1 ELSE 0) ]_vars

\* The hit test passes again while the state is Inside, and nothing is added
\* to the one notification of the entering tick.
C12_Witness ==
    /\ AfterTick /\ ~last.skipped /\ last.was_inside /\ last.in_ui_area
    /\ last.effects = <<>> /\ is_inside /\ emitted = <<"mouse-entered-notch">>

\* C13: while an update_ui_bounds call holds the write lock the detector can
\* still take its tick; a tick taken then reads nothing from the store and
\* decides by the fallback zone; a tick taken while no writer holds the lock
\* and bounds are stored decides by the stored bounds.
FallbackTest(tick) ==
    IF platform = "macos"
    THEN MacInFallback(tick.mouse_x, tick.mouse_y, tick.zone, tick.padding)
    ELSE WinInFallback(tick.mouse_x, tick.mouse_y, det, tick.padding)

C13_ContendedTickFallsBack ==
    /\ []((ui_writer # None /\ tick_budget > 0 /\ upd.pc # "locked") => ENABLED Tick)
    /\ [][
        /\ (TickStep /\ ~last'.skipped /\ ui_writer # None) =>
              /\ last'.guard = NotRead
              /\ last'.in_ui_area = FallbackTest(last')
        /\ (TickStep /\ ~last'.skipped /\ ui_writer = None /\ ui_bounds # None) =>
              /\ last'.guard = [ok |-> TRUE, value |-> ui_bounds]
              /\ last'.in_ui_area =
                    InBounds(last'.mouse_x, last'.mouse_y, det.window_x, ui_bounds,
                             last'.padding) ]_vars

\* A tick taken during a second update_ui_bounds call, with the cursor on the
\* stored bounds and the state Inside: it decides by the fallback zone and exits.
C13_Witness ==
    /\ AfterTick /\ ~last.skipped /\ last.guard = NotRead
    /\ ui_writer # None /\ ui_bounds = Bounds1 /\ det.window_x = 500
    /\ At(550, 10) /\ last.was_inside /\ ~is_inside

\* C14: once a panic under the write lock has poisoned the settings lock,
\* get_window_settings can still be called and returns the value the store
\* holds, which is the one the panicking writer assigned; the detector loops
\* can still take their ticks, and a macOS tick works with that value.
GetStep ==
    /\ last'.op = "get_window_settings"
    /\ UNCHANGED << settings, poisoned, ui_bounds, ui_writer, window, is_inside,
                    tick_budget, emitted, upd >>

C14_PoisonedReadRecovers ==
    /\ [](poisoned => /\ ENABLED GetWindowSettings
                       /\ tick_budget > 0 => ENABLED Tick)
    /\ [][ /\ (GetStep /\ poisoned) => last'.ret = settings
           /\ (GetStep /\ upd.pc = "panicked") => last'.ret = upd.args
           /\ (TickStep /\ poisoned /\ platform = "macos") => last'.settings = settings
           /\ (TickStep /\ upd.pc = "panicked" /\ platform = "macos")
                 => last'.settings = upd.args ]_vars

C14_Witness ==
    /\ poisoned /\ upd.pc = "panicked" /\ platform = "macos"
    /\ AfterTick /\ last.settings = WindowSettings(400, 800, TRUE)
    /\ last.settings # WindowSettingsDefault

\* C15: a read of the settings (get_window_settings, the macOS tick) returns
\* the value of the last write that released the lock, or the initial value,
\* with every field from that one write; a successful read of the UI bounds
\* returns the value stored by the last update_ui_bounds that released the
\* lock; when a writer releases the lock the store holds that writer's value,
\* and no step changes a store while no writer holds its lock.
Committed == IF upd.pc = "locked" THEN upd.before ELSE settings
WholeSettings == {WindowSettingsDefault} \cup StoreArgs

C15_NoTornReadLastWriteWins ==
    [][ /\ GetStep =>
              /\ last'.ret = Committed
              /\ last'.ret \in WholeSettings
        /\ TickStep =>
              /\ last'.settings = Committed
              /\ last'.settings \in WholeSettings
              /\ last'.guard.ok => last'.guard.value = ui_bounds
              /\ last'.guard.value \in {None} \cup BoundsValues
        /\ (upd.pc = "locked" /\ upd'.pc # "locked") => settings' = upd.args
        /\ (upd.pc # "locked" /\ upd'.pc # "locked") => settings' = settings
        /\ (ui_writer # None /\ ui_writer' = None) => ui_bounds' = ui_writer
        /\ ui_writer = None => ui_bounds' = ui_bounds ]_vars

\* A writer is between two of its assignments, so the store holds a mix of
\* two writes, and the read made before it took the lock returned the whole
\* value of the write before.
C15_Witness ==
    /\ upd.pc = "locked" /\ upd.assigned = 2 /\ settings \notin WholeSettings
    /\ last.op = "get_window_settings" /\ last.ret = upd.before
    /\ last.ret = WindowSettings(1000, 200, TRUE)
    /\ ui_bounds = Bounds2 /\ ui_writer = Bounds1

\* C16: the steps of update_ui_bounds change the UiBounds store and its lock
\* only: the main window (size, position, click-through), the settings in
\* memory and in the database, the hover flag, the notifications and what the
\* detector captured stay as they are.
UiBoundsStep == ui_writer' # ui_writer

C16_UiBoundsOnly ==
    [][ UiBoundsStep =>
          /\ UNCHANGED << window, settings, poisoned, db, is_inside, emitted, det, upd >>
          /\ (ui_writer' = None) => (ui_bounds' = ui_writer /\ last'.op = "update_ui_bounds")
          /\ (ui_writer = None) => ui_bounds' = ui_bounds ]_vars

\* Bounds are replaced while the state is Inside and a settings update waits
\* for its resize: the window still has the geometry of the old settings.
C16_Witness ==
    /\ last.op = "update_ui_bounds" /\ ui_bounds = Bounds2
    /\ is_inside /\ upd.pc = "resize"
    /\ window.width = TargetWidth(det.notch_width, WindowSettingsDefault)
    /\ settings = WindowSettings(1000, 200, TRUE)

\* The state in which update_window_settings has just returned Ok.
ReturnedOk ==
    upd.pc = "returned" /\ upd.ret = "Ok" /\ last.op = "update_window_settings"

\* C17: when update_window_settings(w, h, m) has returned Ok and a window
\* labelled "main" exists, that window has the size and the position
\* setup_fixed_window_size computes from (w, h, m) and the display.
C17_MainWindowResized ==
    ReturnedOk /\ window.exists =>
        LET info == get_screen_info(platform, display, TRUE)
            tw == info.notch_width + 160 + upd.args.extra_width
        IN /\ window.width = tw
           /\ window.height = info.notch_height + upd.args.extra_height
           /\ window.x = (info.screen_width - tw) \div 2
           /\ window.y = 0

\* A run of setup_fixed_window_size inside update_window_settings.
ResizeStep == upd.pc = "resize" /\ upd'.pc = "returned" /\ window.exists

\* C18: with non_notch_mode = false in the store, a run of
\* setup_fixed_window_size whose set_size and set_position both succeed leaves
\* the window with width = notch_width + 160 + extra_width (780 for 220 and
\* 400), height = notch_height + extra_height, x = (screen_width - width) / 2
\* and y = 0, computed from the settings the store holds during the run.
C18_NotchModeGeometry ==
    [][ ResizeStep /\ last'.size_ok /\ last'.pos_ok /\ ~settings.non_notch_mode =>
          LET info == get_screen_info(platform, display, TRUE)
              width == info.notch_width + 160 + settings.extra_width
          IN /\ window'.width = width
             /\ (info.notch_width = 220 /\ settings.extra_width = 400) => window'.width = 780
             /\ window'.height = info.notch_height + settings.extra_height
             /\ window'.x = (info.screen_width - width) \div 2
             /\ window'.y = 0
             /\ last'.settings = settings ]_vars

\* Scenario A: notch_width 220 and extra_width 400 gave a 780 wide window,
\* centred on the 2200 wide screen.
C18_Witness ==
    /\ AfterSetup /\ last.size_ok /\ last.pos_ok
    /\ ~last.settings.non_notch_mode
    /\ last.info.notch_width = 220 /\ last.settings.extra_width = 400
    /\ window.width = 780 /\ window.x = 710 /\ window.height = 852

\* The display reports a top safe-area inset greater than 0 (only the macOS
\* build asks for one).
HasTopInset == platform = "macos" /\ display.present /\ display.inset_top > 0

AfterNotchInfo == last.op = "get_notch_info"

\* C19: get_notch_info reports has_notch = true exactly when the display's top
\* safe-area inset is greater than 0, and has_notch equals notch_height > 0.
C19_HasNotchIffInset ==
    AfterNotchInfo =>
        /\ last.ret.has_notch <=> HasTopInset
        /\ last.ret.has_notch <=> last.ret.notch_height > 0

\* C20 (as stated): when the platform reports no top inset, notch_width and
\* notch_height are each a non-zero constant that is the same on every
\* display without an inset; and neither is ever negative.
C20_FixedFallback ==
    AfterNotchInfo =>
        /\ last.ret.notch_width >= 0 /\ last.ret.notch_height >= 0
        /\ ~HasTopInset =>
              /\ last.ret.notch_width > 0 /\ last.ret.notch_height > 0
              /\ \A p \in Platforms : \A d \in GeometryDisplaysOf(p) :
                    ~(p = "macos" /\ d.present /\ d.inset_top > 0) =>
                        /\ get_notch_info(p, d).notch_width = last.ret.notch_width
                        /\ get_notch_info(p, d).notch_height = last.ret.notch_height

\* C20 (amended): when the platform reports no top inset, the geometry query
\* returns notch_width = 180 and notch_height = a tenth of the screen height
\* clamped to 38..52 on macOS with a main screen, and 0 for both on macOS
\* without a main screen, on Windows and on Linux; neither is ever negative.
C20_NoInsetGeometry ==
    AfterNotchInfo =>
        /\ last.ret.notch_width >= 0 /\ last.ret.notch_height >= 0
        /\ ~HasTopInset =>
              IF platform = "macos" /\ display.present
              THEN /\ last.ret.notch_width = 180
                   /\ last.ret.notch_height
                        = Min(Max(last.ret.screen_height \div 10, 38), 52)
              ELSE last.ret.notch_width = 0 /\ last.ret.notch_height = 0

\* The query on a 640 x 480 macOS screen without an inset: 180 and 48.
C20_Witness ==
    /\ AfterNotchInfo /\ ~HasTopInset
    /\ platform = "macos" /\ display = MacSmallDisplay
    /\ last.ret.notch_width = 180 /\ last.ret.notch_height = 48

\* C21: when the display cannot be reached the geometry query still returns a
\* NotchInfo: all four fields zero on macOS without a main screen, 1920 x 1080
\* with zero notch on Linux without a primary monitor, and in every case
\* visible_height = screen_height - notch_height.
C21_UnreachableDisplay ==
    AfterNotchInfo =>
        /\ last.ret # None
        /\ last.ret.visible_height = last.ret.screen_height - last.ret.notch_height
        /\ (platform = "macos" /\ ~display.present) =>
              /\ last.ret.screen_width = 0 /\ last.ret.screen_height = 0
              /\ last.ret.notch_height = 0 /\ last.ret.notch_width = 0
              /\ last.ret.visible_height = 0
        /\ (platform = "linux" /\ ~display.present) =>
              /\ last.ret.screen_width = 1920 /\ last.ret.screen_height = 1080
              /\ last.ret.notch_height = 0 /\ last.ret.notch_width = 0
              /\ last.ret.visible_height = 1080

\* The query on Linux without a primary monitor returned the default.
C21_Witness ==
    /\ AfterNotchInfo /\ platform = "linux" /\ ~display.present
    /\ last.ret # None /\ last.ret.screen_width = 1920 /\ ~last.ret.has_notch

\* A step of one of the legacy commands.
LegacyStep ==
    /\ last'.op \in {"fit_to_notch", "position_at_notch"}
    /\ UNCHANGED << upd, ui_writer, tick_budget >>

\* C22: fit_to_notch and position_at_notch leave WindowSettings (in memory
\* and in the database), UiBounds and the hover flag as they are; and a
\* fit_to_notch(width, height) on the main window that returns Ok leaves it at
\* width x height, x = (screen_width - width) / 2, y = 0, whatever the
\* settings are.
C22_LegacyBypass ==
    [][ LegacyStep =>
          /\ UNCHANGED << settings, poisoned, db, ui_bounds, is_inside, emitted >>
          /\ (last'.op = "fit_to_notch" /\ last'.ret = "Ok" /\ last'.target = "main") =>
                /\ window'.width = last'.width
                /\ window'.height = last'.height
                /\ window'.x = (last'.info.screen_width - last'.width) \div 2
                /\ window'.y = 0
                /\ window'.exists = window.exists /\ window'.ignore = window.ignore ]_vars

\* fit_to_notch(300, 60) succeeded on the main window while the state is
\* Inside, bounds are stored and the settings ask for a 1000 px extra width.
C22_Witness ==
    /\ last.op = "fit_to_notch" /\ last.ret = "Ok" /\ last.target = "main"
    /\ window.width = 300 /\ window.height = 60
    /\ settings = WindowSettings(1000, 200, TRUE)
    /\ is_inside /\ ui_bounds = Bounds1

\* C23: the detector loop never exits: from every state, whatever the tick
\* before did (pre-filtered, no transition, a transition whose click-through
\* call failed or that found no main window), another tick follows, as long
\* as the model follows the loop: every tick of the budget takes place.
C23_LoopKeepsRunning == (tick_budget > 0) ~> (tick_budget = 0)

\* Ticks went on after the main window was gone and after a settings writer
\* panicked: the flag flipped twice, and the last tick of all was pre-filtered
\* or without a transition.
C23_Witness ==
    /\ tick_budget = 0 /\ last.op = "tick" /\ last.effects = <<>>
    /\ Len(emitted) >= 2 /\ ~window.exists /\ poisoned

\* The cursor of a macOS tick lies outside the pre-filter's region for the
\* settings s: [fallback_x_start - P, fallback_x_end + P] x (y <= L).
OutsideBroadRegion(mouse_x, flipped_y, s) ==
    LET effective_notch_width == IF s.non_notch_mode THEN 0 ELSE det.notch_width
        fallback_x_start == (det.screen_width - effective_notch_width) \div 2
        fallback_x_end == fallback_x_start + effective_notch_width
        P == IF s.non_notch_mode THEN 60 ELSE 300
        L == IF s.non_notch_mode THEN 50 ELSE 250
    IN \/ mouse_x < fallback_x_start - P
       \/ mouse_x > fallback_x_end + P
       \/ flipped_y > L

\* C24: a macOS tick in state Outside with the cursor outside the
\* pre-filter's region (P = 300, L = 250; 60 and 50 in non_notch_mode) changes
\* neither the hover flag, the window, the notifications nor the stores and has
\* no effect; a tick in state Inside is never pre-filtered, and with the
\* cursor far away it makes the exit transition.
C24_BroadPreFilter ==
    [][ (TickStep /\ platform = "macos") =>
          /\ (~is_inside /\ OutsideBroadRegion(last'.mouse_x, last'.mouse_y, settings)) =>
                /\ last'.effects = << >>
                /\ UNCHANGED << is_inside, emitted, window, settings, ui_bounds, ui_writer >>
          /\ is_inside =>
                /\ ~last'.skipped
                /\ last'.pt = [x |-> 50, y |-> 600] =>
                      /\ ~is_inside'
                      /\ emitted' = Append(emitted, "mouse-exited-notch") ]_vars

\* In non_notch_mode a tick in state Outside was pre-filtered with the cursor
\* 180 px left of the centre, inside the stored bounds.
C24_Witness ==
    /\ AfterTick /\ platform = "macos" /\ last.skipped /\ ~is_inside
    /\ last.settings.non_notch_mode /\ At(700, 10) /\ ui_bounds = Bounds3
    /\ Len(emitted) >= 2

\* C25: every detector tick works with the WindowSettings the store holds at
\* that tick: the settings it uses are the stored ones, and its fallback zone
\* has the vertical extent of the stored non_notch_mode.
C25_TickUsesStoredSettings ==
    [][ TickStep =>
          /\ last'.settings = settings
          /\ last'.zone.effective_notch_width
                = (IF settings.non_notch_mode THEN 0 ELSE det.notch_width)
          /\ settings.non_notch_mode <=> last'.zone.y_end = 1 ]_vars

\* C26: at every tick the window_x the detector adds to the UI bounds is the
\* x that setup_fixed_window_size applied to the main window last.
C26_WindowXFollowsWindow ==
    [][ TickStep => det.window_x = window.x ]_vars

\* C27: a macOS tick in state Outside, with the bounds readable and the cursor
\* within the UI bounds (translated by window_x) grown by the enter padding,
\* goes to Inside: the broad pre-filter rejects no cursor the hit test accepts.
C27_PreFilterConservative ==
    [][ (TickStep /\ platform = "macos" /\ ~is_inside
           /\ ui_bounds # None /\ ui_writer = None
           /\ Within(last'.pt, ui_bounds, det.window_x, PADDING_ENTER)) =>
          (~last'.skipped /\ is_inside') ]_vars

\* A tick in state Inside with bounds stored, the cursor inside them, and no
\* writer of the bounds other than one that rewrites the stored value.
HeldInside ==
    /\ TickStep /\ is_inside /\ ui_bounds # None
    /\ ui_writer \in {None, ui_bounds}
    /\ Within(last'.pt, ui_bounds, det.window_x, 0)

StaysInside == is_inside' /\ last'.effects = << >> /\ emitted' = emitted /\ window' = window

\* C28 (as stated): with the state Inside, bounds stored and the cursor inside
\* them, no tick exits (no 'mouse-exited-notch', no click-through), whether or
\* not an update_ui_bounds call that rewrites the same value is in progress.
C28_NoExitUnderRewrite ==
    [][ HeldInside => StaysInside ]_vars

\* C28 (amended): the same holds for every tick whose non-blocking read of the
\* bounds succeeds; a tick taken while update_ui_bounds holds the write lock
\* tests the fallback zone, and stays Inside if the cursor is also within the
\* fallback zone grown by the exit padding.
C28_NoExitUnlessContended ==
    [][ (HeldInside /\ platform = "macos") =>
          /\ last'.guard.ok = (ui_writer = None)
          /\ (ui_writer = None) => StaysInside
          /\ (ui_writer # None
                /\ last'.mouse_x >= last'.zone.x_start - 30
                /\ last'.mouse_x <= last'.zone.x_end + 30
                /\ last'.mouse_y <= last'.zone.y_end + 30) => StaysInside ]_vars

\* A tick at the top centre, inside Bounds2 and inside the fallback zone,
\* stayed Inside while a writer that rewrites Bounds2 held the lock.
C28_Witness ==
    /\ AfterTick /\ last.was_inside /\ is_inside /\ ~last.guard.ok
    /\ ui_bounds = Bounds2 /\ ui_writer = Bounds2 /\ At(880, 10)

\* C29: the detector can always take its tick, whatever a concurrent
\* update_window_settings or update_ui_bounds call is doing and without that
\* call taking another step.
C29_TickNeverWaits == (tick_budget > 0) => ENABLED Tick

RestartStep == last'.op = "start" /\ upd' = NoUpdate /\ "readable" \in DOMAIN last'

\* C31: the start-up load sets the store to the persisted record when the
\* database yields one that parses (non_notch_mode = false where the record
\* lacks it) and to WindowSettings::default() otherwise; a restart after an
\* update(w, h, m) whose persist succeeded leaves {w, h, m} in the store.
C31_StartupLoad ==
    [][ RestartStep =>
          /\ ~poisoned'
          /\ IF last'.readable /\ db # NoRow
                 /\ JsonHas(db, "extra_width") /\ JsonHas(db, "extra_height")
             THEN /\ settings'.extra_width = JsonGet(db, "extra_width")
                  /\ settings'.extra_height = JsonGet(db, "extra_height")
                  /\ settings'.non_notch_mode =
                        (JsonHas(db, "non_notch_mode") /\ JsonGet(db, "non_notch_mode"))
             ELSE settings' = WindowSettings(400, 800, FALSE)
          /\ (last'.readable /\ upd.pc \in {"resize", "returned"} /\ upd.persist = "ok") =>
                settings' = upd.args ]_vars

\* After an update(1000, 200, true) and a restart, get_window_settings
\* returns {1000, 200, true}.
C31_Witness ==
    /\ last.op = "get_window_settings" /\ upd = NoUpdate
    /\ last.ret = WindowSettings(1000, 200, TRUE)
    /\ db = to_json(WindowSettings(1000, 200, TRUE))

\* C32: when both of two update_window_settings calls have returned Ok, the
\* main window has the size and the position computed from the WindowSettings
\* the store holds then, also when the two calls overlapped.
C32_WindowMatchesStore ==
    (/\ upd.pc = "returned" /\ upd.ret = "Ok"
     /\ upd.other.pc = "returned" /\ upd.other.ret = "Ok"
     /\ window.exists) =>
        LET info == get_screen_info(platform, display, TRUE)
            tw == info.notch_width + 160 + settings.extra_width
        IN /\ window.width = tw
           /\ window.height = info.notch_height + settings.extra_height
           /\ window.x = (info.screen_width - tw) \div 2
           /\ window.y = 0

\* ---------------------------------------------------------------------------
\* C33: what an Err from update_window_settings leaves behind.

\* The step on which an update_window_settings call returns Err.
ErrReturnStep ==
    /\ last'.op = "update_window_settings"
    /\ upd'.pc = "returned" /\ upd'.ret # "Ok"
    /\ upd.pc \in {"idle", "returned", "panicked", "resize"}
    /\ upd'.other = upd.other
    /\ (upd.pc = "resize" \/ poisoned)

\* C33 as stated: whenever update_window_settings returns Err, the in-memory
\* settings and the persisted row are those from before the call.
C33_ErrLeavesSettings ==
    [][ ErrReturnStep =>
          IF upd.pc = "resize"
          THEN settings' = upd.before /\ db' = upd.row
          ELSE settings' = settings /\ db' = db ]_vars

\* C33 amended: an Err for a poisoned lock leaves memory and row untouched; an
\* Err for a failed resize or reposition comes after the call stored its
\* arguments in memory and, when the write succeeded, in the row, and nothing
\* is rolled back.
C33_ErrAfterStore ==
    [][ ErrReturnStep =>
          IF upd.pc = "resize"
          THEN /\ settings' = upd.args
               /\ db' = IF upd.persist = "ok" THEN to_json(upd.args) ELSE upd.row
          ELSE settings' = settings /\ db' = db ]_vars

\* A failed resize was reported after new settings were stored and persisted.
C33_Witness ==
    /\ upd.pc = "returned" /\ upd.ret = "Err(window)" /\ upd.persist = "ok"
    /\ last.op = "update_window_settings" /\ last.ran_setup
    /\ settings = upd.args /\ settings # WindowSettingsDefault
    /\ db = to_json(settings)

\* ---------------------------------------------------------------------------
\* C34: a panic while persisting does not disable the store: an
\* update_window_settings(w, h, m) that returns after the panic has succeeded
\* and get_window_settings returns {w, h, m}.
C34_UpdateAfterPanic ==
    (poisoned /\ upd.pc = "returned") =>
        (upd.ret = "Ok" /\ get_window_settings = upd.args)

\* ---------------------------------------------------------------------------
\* C35: the detector starts Outside and the notifications of one detector
\* thread alternate strictly, beginning with an entered: the odd ones are
\* 'mouse-entered-notch', the even ones 'mouse-exited-notch', and the entered
\* ones outnumber the exited ones by 1 when the flag is Inside and by 0 when
\* it is Outside.
C35_StrictAlternation ==
    /\ \A i \in 1..Len(emitted) :
          emitted[i] = IF i % 2 = 1 THEN "mouse-entered-notch"
                                    ELSE "mouse-exited-notch"
    /\ Count(emitted, "mouse-entered-notch") - Count(emitted, "mouse-exited-notch")
          = IF is_inside THEN 1 ELSE 0
    /\ (last.op = "start") => ~is_inside

\* The cursor came in, went out and came in again.
C35_Witness ==
    /\ Entered
    /\ emitted = <<"mouse-entered-notch", "mouse-exited-notch", "mouse-entered-notch">>

\* ---------------------------------------------------------------------------
\* C36: on a macOS transition tick the flag is stored first and the
\* notification is emitted next, before every window effect: entering,
\* 'mouse-entered-notch' comes before the activation and before click-through
\* is disabled; exiting, 'mouse-exited-notch' comes before click-through is
\* enabled.
Precedes(effects, a, b) ==
    \A j \in 1..Len(effects) :
        effects[j] = b => \E i \in 1..(j - 1) : effects[i] = a

C36_EmitBeforeWindowEffects ==
    [][ (TickStep /\ platform = "macos" /\ is_inside' # is_inside) =>
          LET e == last'.effects
          IN  IF is_inside'
              THEN /\ Len(e) >= 3
                   /\ e[1] = "store_inside" /\ e[2] = "emit_entered"
                   /\ Has(e, "activate_app")
                   /\ Precedes(e, "emit_entered", "activate_app")
                   /\ Precedes(e, "emit_entered", "click_through_off")
              ELSE /\ Len(e) >= 2
                   /\ e[1] = "store_outside" /\ e[2] = "emit_exited"
                   /\ Precedes(e, "emit_exited", "click_through_on") ]_vars

\* A macOS exit tick with a main window: notification, then click-through.
C36_Witness ==
    /\ platform = "macos" /\ Exited /\ window.exists
    /\ last.effects = <<"store_outside", "emit_exited", "click_through_on">>
    /\ emitted = <<"mouse-entered-notch", "mouse-exited-notch">>

\* ---------------------------------------------------------------------------
\* C37: one detector algorithm.  What each platform's loop decides for a
\* cursor at (mouse_x, y) from the top-left corner, the settings s in the
\* store, the result of the bounds read, the geometry d captured at start-up
\* and the previous state.
MacDecision(mouse_x, y, was_inside, s, guard, d) ==
    LET fb == MacFallback(s, d)
        skipped == ~MacInInteractionZone(mouse_x, y, s, fb) /\ ~was_inside
    IN ~skipped /\ MacInUiArea(mouse_x, y, guard, d, fb, MacPadding(was_inside))

WinDecision(mouse_x, y, was_inside, guard, d) ==
    WinInUiArea(mouse_x, y, guard, d, WinPadding(was_inside))

\* C37: on every tick that samples the cursor, the macOS loop and the Windows
\* loop, given the tick's cursor position, settings, bounds read, geometry and
\* previous state, find the cursor in the same place and emit the same
\* notification.
C37_SameDecisionOnBothPlatforms ==
    [][ TickStep =>
          LET t == last'
              guard == TryReadUiBounds
              mac == MacDecision(t.mouse_x, t.mouse_y, t.was_inside, settings, guard,
                                 MacDetectorStart(det, det.settings))
              win == WinDecision(t.mouse_x, t.mouse_y, t.was_inside, guard,
                                 WinDetectorStart(det, det.settings))
          IN /\ mac = win
             /\ EmittedAfter(<< >>, TickEffects("macos", t.was_inside, mac, TRUE, TRUE))
                  = EmittedAfter(<< >>, TickEffects("windows", t.was_inside, win, TRUE, TRUE))
             /\ t.in_ui_area = IF platform = "macos" THEN mac ELSE win ]_vars

\* ---------------------------------------------------------------------------
\* C38: the periodic refresh of the cached screen height.

\* The primary display changes its resolution while the application runs.
DisplayChange(d) ==
    /\ display # d
    /\ display' = d
    /\ UNCHANGED << platform, settings, poisoned, db, ui_bounds, ui_writer, window,
                    is_inside, det, cached_screen_height, refresh_counter,
                    since_refresh, tick_budget, emitted, upd, last >>

\* The macOS loop followed through a whole cycle of its 16-bit counter and
\* two more refresh periods, the cursor resting far from the overlay, while
\* the display may switch to a larger resolution at any moment.
RefreshRun == U16 + 2 * REFRESH_EVERY
RestingPoint == [x |-> 50, y |-> 600]

InitRefresh ==
    BootFor({"macos"}, [p \in Platforms |-> DisplaysOf(p)], {NoRow}, RefreshRun)

NextRefresh ==
    \/ MacTick(RestingPoint)
    \/ DisplayChange(MacWideDisplay)

SpecRefresh == InitRefresh /\ [][NextRefresh]_vars

\* C38: a macOS tick queries the screen height exactly when the 16-bit
\* wrapping counter, after its increment, is a multiple of 500 (then the cache
\* holds the display's height, otherwise it is left alone); fewer than 500
\* ticks in a row go without a query, also across the wrap-around at 65536;
\* and no tick changes the screen width or the notch dimensions the thread
\* captured at start-up.
C38_RefreshEvery500 ==
    [][ (TickStep /\ platform = "macos") =>
          LET counter == IF refresh_counter = U16 - 1 THEN 0 ELSE refresh_counter + 1
          IN /\ refresh_counter' = counter
             /\ IF counter % REFRESH_EVERY = 0
                THEN /\ cached_screen_height' = display.height
                     /\ since_refresh' = 0
                ELSE /\ cached_screen_height' = cached_screen_height
                     /\ since_refresh' = since_refresh + 1
                     /\ since_refresh' < REFRESH_EVERY
             /\ det'.screen_width = det.screen_width
             /\ det'.notch_width = det.notch_width
             /\ det'.notch_height = det.notch_height ]_vars

\* The first refresh after the display grew: 500 ticks in, the cache takes
\* the new height while the captured width stays that of the old display.
C38_Witness ==
    /\ platform = "macos" /\ AfterTick
    /\ refresh_counter = REFRESH_EVERY /\ since_refresh = 0
    /\ display = MacWideDisplay
    /\ cached_screen_height = MacWideDisplay.height
    /\ det.screen_width = MacDisplay.width

====
